---- MODULE Spec2Model ----
(***************************************************************************)
(* Model of pcm.py: the line-by-line interpreter of the PCM waveform       *)
(* language (main), the Waveform class with its time-step derivation       *)
(* (addPoint, findCommonTimeStep) and playWaveform.  The SMU is seen only  *)
(* through the sequence of driver calls that pcm.py makes on it.           *)
(*                                                                         *)
(* A Decimal built from a literal is kept as <<coefficient, places>>, the  *)
(* value being coefficient / 10^places.  A rational is <<num, den>> in     *)
(* lowest terms with den > 0.  Decimal arithmetic is modelled as exact,    *)
(* which it is as long as the results fit the 28 significant digits of the *)
(* default Decimal context.                                                *)
(***************************************************************************)
EXTENDS Integers, Sequences, FiniteSets, TLC

\* ---------------------------------------------------------------- bounds
MaxPoints == 2      \* lines of a program made of sample lines only
MaxPlayLines == 4   \* lines of a program of samples, plays and replays
MaxLines  == 3      \* lines of a program drawn from every line form
MaxId     == 1      \* waveform ids of the play programs are 0..MaxId
MaxCount  == 2      \* largest iteration count and replay count
MaxCoef   == 5      \* largest coefficient of a time literal
MaxPlaces == 1      \* most decimal places of a time literal
MaxLevel  == 2      \* levels are the literals 1..MaxLevel

VARIABLES
    objs,               \* heap of Waveform objects, in order of construction
    waveforms,          \* main: dict id -> index of the object in objs
    currentWaveform,    \* main: id of the waveform that receives samples
    replay,             \* main: list of <<"W", object index, plays>>
    ln,                 \* main: number of the line last read
    tokens,             \* main: tokens of the line last read
    smu,                \* sequence of the driver calls made so far
    msg,                \* what main printed for the line last read
    repeats,            \* main: repeat count of the replay under way
    pc,                 \* "read", "extend", "aborted" or "done"
    err                 \* name of the uncaught exception, "" if none

vars == <<objs, waveforms, currentWaveform, replay, ln, tokens, smu, msg,
          repeats, pc, err>>

\* ---------------------------------------------------------------- tokens
Num(c, e)  == [k |-> "num", w |-> "", c |-> c, e |-> e]
NonFinite  == [k |-> "nonfinite", w |-> "nan", c |-> 0, e |-> 0]
Word(s)    == [k |-> "word", w |-> s, c |-> 0, e |-> 0]

is_number(s) == s.k \in {"num", "nonfinite"}

\* int(s) accepts a literal only when it is written without a fraction
IntLiteral(s) == s.k = "num" /\ s.e = 0

StartsWithHash(s) == s.k = "word" /\ s.w = "#"

\* ------------------------------------------------------------ arithmetic
Abs(x) == IF x < 0 THEN -x ELSE x

RECURSIVE Pow10(_)
Pow10(e) == IF e = 0 THEN 1 ELSE 10 * Pow10(e - 1)

\* int(): truncation toward zero of n / d, d > 0
Trunc(n, d) == IF n >= 0 THEN n \div d ELSE -((-n) \div d)

RECURSIVE gcd(_, _)
gcd(a, b) == IF b = 0 THEN a ELSE gcd(b, a % b)

lcm_last(a, b) == b

lcm(a, b) == (a * b) \div gcd(a, b)

RECURSIVE lcmm(_)
lcmm(arglist) ==
    IF Len(arglist) = 1 THEN arglist[1]
    ELSE lcm(lcmm(SubSeq(arglist, 1, Len(arglist) - 1)), arglist[Len(arglist)])

Norm(n, d) ==
    LET g == gcd(Abs(n), Abs(d))
        s == IF d < 0 THEN -1 ELSE 1
    IN  <<(s * n) \div g, (s * d) \div g>>

\* Decimal.as_integer_ratio() of a finite Decimal
as_integer_ratio(t) == Norm(t.c, Pow10(t.e))

RatDiv(p, q) == Norm(p[1] * q[2], p[2] * q[1])
RatMul(p, q) == Norm(p[1] * q[1], p[2] * q[2])
RatLess(p, q) == p[1] * q[2] < q[1] * p[2]

\* ---------------------------------------------------------- class Waveform
Waveform(num) ==
    [id |-> num, points |-> <<>>, vlist |-> <<>>, duration |-> <<0, 1>>,
     tstep |-> <<>>]

HasTstep(wf) == wf.tstep # <<>>

findCommonTimeStep(tv) ==
    LET denominators == [i \in 1..Len(tv) |-> as_integer_ratio(tv[i][1])[2]]
        lcm_denom    == lcmm(denominators)
    IN  Norm(1, lcm_denom)

\* int(t / self.tstep)
copies(t, tstep) ==
    LET q == RatDiv(as_integer_ratio(t), tstep) IN Trunc(q[1], q[2])

\* range(n) iterations appending v; none when n <= 0
Repeated(v, n) == [j \in 1..n |-> v]

RECURSIVE ExpandFrom(_, _, _)
ExpandFrom(points, tstep, i) ==
    IF i > Len(points) THEN <<>>
    ELSE Repeated(points[i][2], copies(points[i][1], tstep))
             \o ExpandFrom(points, tstep, i + 1)

AllFinite(points) == \A i \in 1..Len(points) : points[i][1].k = "num"

addPoint_timestamp(wf, time, voltage) ==
    LET pts   == Append(wf.points, <<time, voltage>>)
        ts    == findCommonTimeStep(pts)
        vl    == ExpandFrom(pts, ts, 1)
    IN  [wf EXCEPT !.points = pts, !.tstep = ts, !.vlist = vl,
                   !.duration = as_integer_ratio(time)]

\* addPoint when findCommonTimeStep returns
addPoint(wf, time, voltage) ==
    LET pts   == Append(wf.points, <<time, voltage>>)
        ts    == findCommonTimeStep(pts)
        vl    == ExpandFrom(pts, ts, 1)
    IN  [wf EXCEPT !.points = pts, !.tstep = ts, !.vlist = vl,
                   !.duration = RatMul(<<Len(vl), 1>>, ts)]

\* addPoint when as_integer_ratio raises ValueError on a NaN time: only the
\* append has happened
addPointRaised(wf, time, voltage) ==
    [wf EXCEPT !.points = Append(wf.points, <<time, voltage>>)]

\* --------------------------------------------------------------- messages
NoMsg == <<"", 0, 0, 0>>
Msg(text, line) == <<text, line, 0, 0>>

\* ------------------------------------------------------------------- main
Init_noWaveform ==
    /\ objs = <<>>
    /\ waveforms = <<>>
    /\ currentWaveform = 0
    /\ replay = <<>>
    /\ ln = 0
    /\ tokens = <<>>
    /\ smu = <<>>
    /\ msg = NoMsg
    /\ repeats = 0
    /\ pc = "read"
    /\ err = ""

\* lines 40-44
Init ==
    /\ objs = <<Waveform(0)>>
    /\ waveforms = (0 :> 1)
    /\ currentWaveform = 0
    /\ replay = <<>>
    /\ ln = 0
    /\ tokens = <<>>
    /\ smu = <<>>
    /\ msg = NoMsg
    /\ repeats = 0
    /\ pc = "read"
    /\ err = ""

\* lines 54-60: the first token is a number
SampleLine(line) ==
    /\ pc = "read"
    /\ Len(line) >= 2
    /\ ~(StartsWithHash(line[1]) \/ StartsWithHash(line[2]))
    /\ is_number(line[1])
    /\ ln' = ln + 1
    /\ tokens' = line
    /\ UNCHANGED <<waveforms, currentWaveform, replay, smu, repeats>>
    /\ IF ~is_number(line[2])
       THEN /\ msg' = Msg("Error - non-numeric data", ln + 1)
            /\ UNCHANGED <<objs, pc, err>>
       ELSE LET o == waveforms[currentWaveform] IN
            IF AllFinite(Append(objs[o].points, <<line[1], line[2]>>))
            THEN /\ objs' = [objs EXCEPT ![o] = addPoint(@, line[1], line[2])]
                 /\ msg' = NoMsg
                 /\ UNCHANGED <<pc, err>>
            ELSE /\ objs' = [objs EXCEPT
                                ![o] = addPointRaised(@, line[1], line[2])]
                 /\ msg' = NoMsg
                 /\ pc' = "aborted"
                 /\ err' = "ValueError"

\* what every branch that ends in an uncaught exception leaves behind
Raise(e) == pc' = "aborted" /\ err' = e /\ msg' = NoMsg

Ops == {"D", "DEF", "OUT", "out", "W", "w", "R", "r"}

IsOperation(line) ==
    /\ Len(line) >= 2
    /\ ~(StartsWithHash(line[1]) \/ StartsWithHash(line[2]))
    /\ ~is_number(line[1])

\* lines 49-53: fewer than two tokens, or a comment
SkipLine(line) ==
    /\ pc = "read"
    /\ IF Len(line) < 2 THEN TRUE
       ELSE StartsWithHash(line[1]) \/ StartsWithHash(line[2])
    /\ ln' = ln + 1
    /\ tokens' = line
    /\ msg' = NoMsg
    /\ UNCHANGED <<objs, waveforms, currentWaveform, replay, smu, repeats,
                   pc, err>>

StoreWaveform_keep(table, heap, idnum) ==
    IF idnum \in DOMAIN table
    THEN [table |-> table, heap |-> heap]
    ELSE [table |-> (idnum :> (Len(heap) + 1)) @@ table,
          heap  |-> Append(heap, Waveform(idnum))]

StoreWaveform_unregistered(table, heap, idnum) ==
    [table |-> table, heap |-> Append(heap, Waveform(idnum))]

\* line 72: waveforms[idnum] = Waveform(idnum)
StoreWaveform(table, heap, idnum) ==
    [table |-> (idnum :> (Len(heap) + 1)) @@ table,
     heap  |-> Append(heap, Waveform(idnum))]

\* lines 64-75
DefLine(line) ==
    /\ pc = "read"
    /\ IsOperation(line)
    /\ line[1].w \in {"D", "DEF"}
    /\ ln' = ln + 1
    /\ tokens' = line
    /\ UNCHANGED <<replay, smu, repeats>>
    /\ IF ~is_number(line[2])
       THEN /\ msg' = Msg("Error - waveform definition without ID", ln + 1)
            /\ UNCHANGED <<objs, waveforms, currentWaveform, pc, err>>
       ELSE IF ~IntLiteral(line[2])
       THEN /\ Raise("ValueError")
            /\ UNCHANGED <<objs, waveforms, currentWaveform>>
       ELSE IF line[2].c < 0
       THEN /\ msg' = Msg("Error - waveform definition with negative ID",
                          ln + 1)
            /\ UNCHANGED <<objs, waveforms, currentWaveform, pc, err>>
       ELSE LET st == StoreWaveform(waveforms, objs, line[2].c) IN
            /\ waveforms' = st.table
            /\ objs' = st.heap
            /\ currentWaveform' = line[2].c
            /\ msg' = NoMsg
            /\ UNCHANGED <<pc, err>>

\* ------------------------------------------------------------ driver calls
Call(op, vlist, tstep, on) ==
    [op |-> op, vlist |-> vlist, tstep |-> tstep, on |-> on]

prepareVoltageListSweep(vlist, tstep) ==
    Call("prepareVoltageListSweep", vlist, tstep, FALSE)
initiate == Call("initiate", <<>>, <<>>, FALSE)
enableOutput(on) == Call("enableOutput", <<>>, <<>>, on)

\* lines 77-82
OutLine(line) ==
    /\ pc = "read"
    /\ IsOperation(line)
    /\ line[1].w \in {"OUT", "out"}
    /\ ln' = ln + 1
    /\ tokens' = line
    /\ msg' = NoMsg
    /\ smu' = IF line[2].k = "word" /\ line[2].w \in {"ON", "on"}
              THEN Append(smu, enableOutput(TRUE))
              ELSE IF line[2].k = "word" /\ line[2].w \in {"OFF", "off"}
              THEN Append(smu, enableOutput(FALSE))
              ELSE smu
    /\ UNCHANGED <<objs, waveforms, currentWaveform, replay, repeats, pc, err>>

playWaveform_once(wf, iterations) ==
    <<prepareVoltageListSweep(wf.vlist, wf.tstep), initiate>>

\* lines 125-128: the calls playWaveform makes; wf.tstep must exist
playWaveform(wf, iterations) ==
    <<prepareVoltageListSweep(wf.vlist, wf.tstep)>>
        \o Repeated(initiate, iterations)

NotInTable_negative(idnum, table) == idnum < 0

\* line 89
NotInTable(idnum, table) == idnum < 0 \/ idnum \notin DOMAIN table

Plays_unclamped(line) ==
    IF Len(line) > 2 /\ is_number(line[3]) THEN line[3].c ELSE 1

\* lines 93-97; defined when the third token, if a number, suits int()
Plays(line) ==
    IF Len(line) > 2 /\ is_number(line[3])
    THEN (IF line[3].c < 1 THEN 1 ELSE line[3].c)
    ELSE 1

\* lines 84-100
WLine(line) ==
    /\ pc = "read"
    /\ IsOperation(line)
    /\ line[1].w \in {"W", "w"}
    /\ ln' = ln + 1
    /\ tokens' = line
    /\ UNCHANGED <<objs, waveforms, currentWaveform, repeats>>
    /\ IF ~is_number(line[2])
       THEN /\ msg' = Msg("Error - waveform operation missing ID", ln + 1)
            /\ UNCHANGED <<replay, smu, pc, err>>
       ELSE IF ~IntLiteral(line[2])
       THEN Raise("ValueError") /\ UNCHANGED <<replay, smu>>
       ELSE IF NotInTable(line[2].c, waveforms)
       THEN /\ msg' = Msg("Error - waveform requested does not exist", ln + 1)
            /\ UNCHANGED <<replay, smu, pc, err>>
       ELSE IF line[2].c \notin DOMAIN waveforms
       THEN Raise("KeyError") /\ UNCHANGED <<replay, smu>>
       ELSE IF Len(line) > 2 /\ is_number(line[3]) /\ ~IntLiteral(line[3])
       THEN Raise("ValueError") /\ UNCHANGED <<replay, smu>>
       ELSE IF ~HasTstep(objs[waveforms[line[2].c]])
       THEN Raise("AttributeError") /\ UNCHANGED <<replay, smu>>
       ELSE LET wf == waveforms[line[2].c] IN
            /\ smu' = smu \o playWaveform(objs[wf], Plays(line))
            /\ replay' = Append(replay, <<"W", wf, Plays(line)>>)
            /\ msg' = NoMsg
            /\ UNCHANGED <<pc, err>>

RECURSIVE PlayLog_byId(_, _, _)
PlayLog_byId(heap, log, i) ==
    IF i > Len(log) THEN <<>>
    ELSE LET o == CHOOSE j \in 1..Len(heap) :
                      /\ heap[j].id = heap[log[i][2]].id
                      /\ \A m \in (j + 1)..Len(heap) :
                             heap[m].id # heap[log[i][2]].id
         IN  IF ~HasTstep(heap[o]) THEN <<>>
             ELSE (IF log[i][1] = "W"
                   THEN playWaveform(heap[o], log[i][3])
                   ELSE <<>>)
                  \o PlayLog_byId(heap, log, i + 1)

\* lines 110-114: one pass over the log, from record i on
RECURSIVE PlayLog(_, _, _)
PlayLog(heap, log, i) ==
    IF i > Len(log) \/ ~HasTstep(heap[log[i][2]]) THEN <<>>
    ELSE (IF log[i][1] = "W"
          THEN playWaveform(heap[log[i][2]], log[i][3])
          ELSE <<>>)
         \o PlayLog(heap, log, i + 1)

RECURSIVE ReplayLoop_recordsOutermost(_, _, _)
ReplayLoop_recordsOutermost(heap, log, n) ==
    IF log = <<>> THEN <<>>
    ELSE PlayLog(heap, [j \in 1..n |-> log[1]], 1)
         \o ReplayLoop_recordsOutermost(heap, Tail(log), n)

\* lines 109-115: n passes over the log
RECURSIVE ReplayLoop(_, _, _)
ReplayLoop(heap, log, n) ==
    IF n = 0 THEN <<>>
    ELSE PlayLog(heap, log, 1) \o ReplayLoop(heap, log, n - 1)

LogAfterLoop_appending(log, n) ==
    log \o [j \in 1..(n * Len(log)) |-> log[((j - 1) % Len(log)) + 1]]

\* lines 109-115 leave the list replay as it is
LogAfterLoop(log, n) == log

LogPlayable(heap, log) == \A i \in 1..Len(log) : HasTstep(heap[log[i][2]])

\* lines 102-115
RLine(line) ==
    /\ pc = "read"
    /\ IsOperation(line)
    /\ line[1].w \in {"R", "r"}
    /\ ln' = ln + 1
    /\ tokens' = line
    /\ UNCHANGED <<objs, waveforms, currentWaveform>>
    /\ IF ~is_number(line[2])
       THEN /\ msg' = Msg("Error - unusable replay count", ln + 1)
            /\ UNCHANGED <<replay, smu, repeats, pc, err>>
       ELSE IF ~IntLiteral(line[2])
       THEN Raise("ValueError") /\ UNCHANGED <<replay, smu, repeats>>
       ELSE IF line[2].c < 1
       THEN /\ msg' = Msg("Error - unusable replay count", ln + 1)
            /\ UNCHANGED <<replay, smu, repeats, pc, err>>
       ELSE /\ repeats' = line[2].c
            /\ smu' = smu \o ReplayLoop(objs, replay, line[2].c)
            /\ replay' = LogAfterLoop(replay, line[2].c)
            /\ IF LogPlayable(objs, replay)
               THEN /\ msg' = <<"Found REPLAY", ln + 1, Len(replay), line[2].c>>
                    /\ pc' = "extend"
                    /\ UNCHANGED err
               ELSE Raise("AttributeError")

ExtendLoop_clear(log, n) == <<>>

\* lines 116-117: replay.extend(replay), n times
RECURSIVE ExtendLoop(_, _)
ExtendLoop(log, n) == IF n = 0 THEN log ELSE ExtendLoop(log \o log, n - 1)

ReplayExtend ==
    /\ pc = "extend"
    /\ replay' = ExtendLoop(replay, repeats)
    /\ pc' = "read"
    /\ UNCHANGED <<objs, waveforms, currentWaveform, ln, tokens, smu, msg,
                   repeats, err>>

\* an operation word that no branch of lines 64-117 handles
OtherLine(line) ==
    /\ pc = "read"
    /\ IsOperation(line)
    /\ line[1].w \notin Ops
    /\ ln' = ln + 1
    /\ tokens' = line
    /\ msg' = NoMsg
    /\ UNCHANGED <<objs, waveforms, currentWaveform, replay, smu, repeats,
                   pc, err>>

CallsUntilFailure_retried(calls, j) == SubSeq(calls, 1, j) \o <<calls[j]>>

\* A driver call ends in os.write, which raises OSError when the device
\* does not take the command; pcm.py catches nothing.  These are the calls
\* made when the j-th call of an operation raises.
CallsUntilFailure(calls, j) == SubSeq(calls, 1, j)

\* lines 77-81 when smu.enableOutput raises
OutLineDeviceFails(line) ==
    /\ pc = "read"
    /\ IsOperation(line)
    /\ line[1].w \in {"OUT", "out"}
    /\ line[2].k = "word"
    /\ line[2].w \in {"ON", "on", "OFF", "off"}
    /\ ln' = ln + 1
    /\ tokens' = line
    /\ smu' = smu \o CallsUntilFailure(
                        <<enableOutput(line[2].w \in {"ON", "on"})>>, 1)
    /\ Raise("OSError")
    /\ UNCHANGED <<objs, waveforms, currentWaveform, replay, repeats>>

\* lines 84-98 when a driver call of playWaveform raises
WLineDeviceFails(line) ==
    /\ pc = "read"
    /\ IsOperation(line)
    /\ line[1].w \in {"W", "w"}
    /\ IntLiteral(line[2])
    /\ ~NotInTable(line[2].c, waveforms)
    /\ line[2].c \in DOMAIN waveforms
    /\ ~(Len(line) > 2 /\ is_number(line[3]) /\ ~IntLiteral(line[3]))
    /\ HasTstep(objs[waveforms[line[2].c]])
    /\ ln' = ln + 1
    /\ tokens' = line
    /\ \E j \in 1..(1 + Plays(line)) :
           smu' = smu \o CallsUntilFailure(
                      playWaveform(objs[waveforms[line[2].c]], Plays(line)), j)
    /\ Raise("OSError")
    /\ UNCHANGED <<objs, waveforms, currentWaveform, replay, repeats>>

\* lines 102-114 when a driver call of a replayed play raises
RLineDeviceFails(line) ==
    /\ pc = "read"
    /\ IsOperation(line)
    /\ line[1].w \in {"R", "r"}
    /\ IntLiteral(line[2])
    /\ line[2].c >= 1
    /\ LogPlayable(objs, replay)
    /\ ln' = ln + 1
    /\ tokens' = line
    /\ repeats' = line[2].c
    /\ \E j \in 1..Len(ReplayLoop(objs, replay, line[2].c)) :
           smu' = smu \o CallsUntilFailure(
                      ReplayLoop(objs, replay, line[2].c), j)
    /\ Raise("OSError")
    /\ UNCHANGED <<objs, waveforms, currentWaveform, replay>>

\* line 119: readlines() is exhausted
Finish ==
    /\ pc = "read"
    /\ pc' = "done"
    /\ msg' = <<"Processed", ln, 0, 0>>
    /\ UNCHANGED <<objs, waveforms, currentWaveform, replay, ln, tokens, smu,
                   repeats, err>>

\* ------------------------------------------------- programs of samples only
Times  == {Num(c, e) : c \in (-1)..MaxCoef, e \in 0..MaxPlaces}
Levels == {Num(c, 0) : c \in 1..MaxLevel}

WaveLines == {<<t, v>> : t \in Times, v \in Levels}

NextWave == \E line \in WaveLines : ln < MaxPoints /\ SampleLine(line)

SpecWave == Init /\ [][NextWave]_vars

\* ------------------------------------- programs of samples, plays, replays
Half == Num(5, 1)

PlayLines ==
    {<<Half, v>> : v \in Levels}
    \cup {<<Word("DEF"), Num(i, 0)>> : i \in 0..MaxId}
    \cup {<<Word("W"), Num(i, 0)>> : i \in 0..MaxId}
    \cup {<<Word("W"), Num(i, 0), Num(MaxCount, 0)>> : i \in 0..MaxId}
    \cup {<<Word("R"), Num(n, 0)>> : n \in 1..MaxCount}

NextPlay ==
    \/ \E line \in PlayLines : ln < MaxPlayLines /\ SampleLine(line)
    \/ \E line \in PlayLines : ln < MaxPlayLines /\ DefLine(line)
    \/ \E line \in PlayLines : ln < MaxPlayLines /\ WLine(line)
    \/ \E line \in PlayLines : ln < MaxPlayLines /\ RLine(line)
    \/ ReplayExtend

SpecPlay == Init /\ [][NextPlay]_vars

\* ------------------------------------------ programs of every line form
Junk == Word("x")
Hash == Word("#")
One  == Num(1, 0)
Frac == Num(15, 1)
Zero == Num(0, 0)

Lines ==
    {<<>>, <<Junk>>, <<Hash, Junk>>, <<Junk, Hash>>, <<Junk, One>>}
    \cup {<<Half, One>>, <<Half, Junk>>, <<Half, One, Junk>>,
          <<NonFinite, One>>, <<Zero, One>>}
    \cup {<<Word("DEF"), a>> :
             a \in {Num(i, 0) : i \in (-1)..(MaxId + 1)} \cup {Frac, Junk}}
    \cup {<<Word("OUT"), a>> : a \in {Word("ON"), Word("off"), Junk}}
    \cup {<<Word("W"), a>> :
             a \in {Num(i, 0) : i \in (-1)..(MaxId + 2)} \cup {Frac, Junk}}
    \cup {<<Word("w"), Num(0, 0), a>> :
             a \in {Num(-1, 0), Num(0, 0), Num(MaxCount, 0), Frac, Junk}}
    \cup {<<Word("R"), a>> : a \in {Num(0, 0), One, Frac, Junk, Half}}
    \cup {<<Word("R")>>}

Next ==
    \/ \E line \in Lines : ln < MaxLines /\ SkipLine(line)
    \/ \E line \in Lines : ln < MaxLines /\ SampleLine(line)
    \/ \E line \in Lines : ln < MaxLines /\ DefLine(line)
    \/ \E line \in Lines : ln < MaxLines /\ OutLine(line)
    \/ \E line \in Lines : ln < MaxLines /\ WLine(line)
    \/ \E line \in Lines : ln < MaxLines /\ RLine(line)
    \/ \E line \in Lines : ln < MaxLines /\ OtherLine(line)
    \/ \E line \in Lines : ln < MaxLines /\ OutLineDeviceFails(line)
    \/ \E line \in Lines : ln < MaxLines /\ WLineDeviceFails(line)
    \/ \E line \in Lines : ln < MaxLines /\ RLineDeviceFails(line)
    \/ ReplayExtend
    \/ Finish

Spec == Init /\ [][Next]_vars

\* main is one thread that runs without waiting for anything but the
\* sleep of playWaveform: a step that can be taken is taken
SpecLive == Spec /\ WF_vars(Next)

\* ------------------------------------------------------------ C1, C2, C3
TimeOf(wf, i)  == as_integer_ratio(wf.points[i][1])
LevelOf(wf, i) == wf.points[i][2]

\* q divides t: t / q is an integer
Divides(q, t) == RatDiv(t, q)[2] = 1

Intervals == {<<a, b>> : a \in 1..MaxCoef, b \in 1..Pow10(MaxPlaces)}

SomeTimeNonZero(wf) == \E i \in 1..Len(wf.points) : TimeOf(wf, i)[1] # 0

\* C2: the time step is the largest interval that divides every sample time
\* of the waveform: no greater interval divides them all (waveforms whose
\* times are all 0, which every interval divides, are left aside).
C2_QuantumIsLargest ==
    \A o \in 1..Len(objs) :
        SomeTimeNonZero(objs[o]) =>
            ~ \E q \in Intervals :
                /\ RatLess(objs[o].tstep, q)
                /\ \A i \in 1..Len(objs[o].points) :
                       Divides(q, TimeOf(objs[o], i))

RECURSIVE SumCopies(_, _)
SumCopies(wf, n) ==
    IF n = 0 THEN 0
    ELSE SumCopies(wf, n - 1) + RatDiv(TimeOf(wf, n), wf.tstep)[1]

\* C3: the expansion is, sample after sample in insertion order, the level
\* of the sample repeated time / quantum times, that count being an exact
\* non-negative integer; its length is the sum of the counts and the
\* duration is quantum x length.
C3_ExpansionIsCopies ==
    \A o \in 1..Len(objs) :
        LET wf == objs[o] IN
        wf.points # <<>> =>
            /\ \A i \in 1..Len(wf.points) :
                   /\ Divides(wf.tstep, TimeOf(wf, i))
                   /\ RatDiv(TimeOf(wf, i), wf.tstep)[1] >= 0
                   /\ \A j \in (SumCopies(wf, i - 1) + 1)..SumCopies(wf, i) :
                          j \in 1..Len(wf.vlist) /\ wf.vlist[j] = LevelOf(wf, i)
            /\ Len(wf.vlist) = SumCopies(wf, Len(wf.points))
            /\ wf.duration = RatMul(wf.tstep, <<Len(wf.vlist), 1>>)

AllTimesNonNegative ==
    \A o \in 1..Len(objs) : \A i \in 1..Len(objs[o].points) :
        objs[o].points[i][1].c >= 0

\* The same statement wherever no negative time has been recorded
ExpansionIsCopiesOfNonNegative == AllTimesNonNegative => C3_ExpansionIsCopies

\* ------------------------------------------------------------------- C4
IsWord(t, ws) == t.k = "word" /\ t.w \in ws

\* a step that reads a line
ReadsLine == ln' = ln + 1

\* a step that reads a W line naming a waveform of the table and returns
\* to the loop
PlayStep ==
    /\ ReadsLine
    /\ Len(tokens') >= 2
    /\ IsWord(tokens'[1], {"W", "w"})
    /\ IntLiteral(tokens'[2])
    /\ tokens'[2].c \in DOMAIN waveforms
    /\ pc' = "read"

\* C4: a W line that plays waveform id adds to the driver calls exactly one
\* prepareVoltageListSweep with the waveform's vlist and tstep followed by
\* exactly `iterations` initiate calls, and appends exactly one record of
\* that waveform and iteration count to the replay log.
C4_PlayIssuesPrepareThenInitiates ==
    [][PlayStep =>
        LET id == tokens'[2].c
            it == IF Len(tokens') > 2 THEN tokens'[3].c ELSE 1
            wf == objs[waveforms[id]]
            n  == Len(smu)
            k  == Len(replay)
        IN  /\ Len(smu') = n + 1 + it
            /\ SubSeq(smu', 1, n) = smu
            /\ smu'[n + 1] = prepareVoltageListSweep(wf.vlist, wf.tstep)
            /\ \A j \in (n + 2)..(n + 1 + it) : smu'[j] = initiate
            /\ Len(replay') = k + 1
            /\ SubSeq(replay', 1, k) = replay
            /\ replay'[k + 1] = <<"W", waveforms[id], it>>
            /\ objs[replay'[k + 1][2]].id = id]_vars

\* DEF 1 / 0.5 1 / W 1 MaxCount has been run
C4_Witness ==
    /\ tokens = <<Word("W"), Num(1, 0), Num(MaxCount, 0)>>
    /\ pc = "read"
    /\ Len(smu) = 1 + MaxCount
    /\ smu[1] = prepareVoltageListSweep(<<Num(1, 0)>>, <<1, 2>>)
    /\ smu[2] = initiate
    /\ Len(replay) = 1
    /\ objs[replay[1][2]].id = 1
    /\ replay[1][3] = MaxCount

\* ------------------------------------------------------------------- C5
\* concatenation of a sequence of sequences, by halves
RECURSIVE Flatten(_)
Flatten(ss) ==
    IF Len(ss) = 0 THEN <<>>
    ELSE IF Len(ss) = 1 THEN ss[1]
    ELSE Flatten(SubSeq(ss, 1, Len(ss) \div 2))
             \o Flatten(SubSeq(ss, (Len(ss) \div 2) + 1, Len(ss)))

\* the step that runs the loops of a replay
ReplayStep == pc = "read" /\ pc' = "extend"

\* C5: a replay of count n over a log of k records makes n * k plays; the
\* j-th of them is the play of record ((j - 1) mod k) + 1 of the log with the
\* iteration count of that record, so the log's sequence of plays reaches
\* the driver n times over, one repetition after the other.
C5_ReplayRepeatsLogInOrder ==
    [][ReplayStep =>
        LET k == Len(replay)
            n == repeats'
            rec(j) == replay[((j - 1) % k) + 1]
        IN  smu' = smu \o Flatten([j \in 1..(n * k) |->
                        <<prepareVoltageListSweep(objs[rec(j)[2]].vlist,
                                                  objs[rec(j)[2]].tstep)>>
                        \o [i \in 1..rec(j)[3] |-> initiate]])]_vars

\* a replay of count 2 or more of a log that holds two different records
C5_Witness ==
    /\ pc = "extend"
    /\ repeats >= 2
    /\ Len(replay) >= 2
    /\ replay[1] # replay[2]

\* ------------------------------------------------------------------- C6
\* C6 as stated: when the loops of Replay(n) on a log of k records end, the
\* log holds k * (n + 1) records.  msg holds k and n as printed at line 108.
C6_LogGrowsDuringReplay ==
    pc = "extend" => Len(replay) = msg[3] * (msg[4] + 1)

\* C6 amended: the loops of a replay leave the replay log as it was; a
\* replayed play appends no record.
C6_LogUnchangedDuringReplay == [][ReplayStep => replay' = replay]_vars

C6_Witness ==
    /\ pc = "extend"
    /\ repeats >= 2
    /\ Len(replay) >= 1
    /\ Len(replay) = msg[3]
    /\ Len(smu) > Len(replay)

\* ------------------------------------------------------------------- C7
ExtendStep == pc = "extend" /\ pc' = "read"

\* C7: the extension at the end of Replay(n) turns a log of m records into
\* that sequence of m records repeated n + 1 times, of length m * (n + 1).
C7_ExtendAddsCountCopies ==
    [][ExtendStep =>
        LET m == Len(replay) IN
        /\ Len(replay') = m * (repeats + 1)
        /\ \A j \in 1..Len(replay') : replay'[j] = replay[((j - 1) % m) + 1]
      ]_vars

\* ------------------------------------------------------------------- C8
\* a step that reads a DEF line whose id is already in the table
RedefineStep ==
    /\ ReadsLine
    /\ Len(tokens') >= 2
    /\ IsWord(tokens'[1], {"D", "DEF"})
    /\ IntLiteral(tokens'[2])
    /\ tokens'[2].c \in DOMAIN waveforms

\* C8 as stated: DEF of an id already present leaves the samples, time
\* step, expansion and duration of that waveform as they were and only
\* moves the current-waveform pointer.
C8_RedefineKeepsData ==
    [][RedefineStep =>
        LET id == tokens'[2].c IN
        /\ objs'[waveforms'[id]] = objs[waveforms[id]]
        /\ currentWaveform' = id]_vars

\* C8 amended: DEF of an id already present stores a new empty waveform
\* under that id (no samples, empty expansion, duration 0, no time step)
\* and moves the current-waveform pointer to it.
C8_RedefineStoresEmptyWaveform ==
    [][RedefineStep =>
        LET id == tokens'[2].c
            wf == objs'[waveforms'[id]]
        IN  /\ wf.id = id
            /\ wf.points = <<>>
            /\ wf.vlist = <<>>
            /\ wf.duration = <<0, 1>>
            /\ ~HasTstep(wf)
            /\ currentWaveform' = id]_vars

\* DEF of an id whose former waveform held samples
C8_Witness ==
    /\ Len(tokens) >= 2
    /\ IsWord(tokens[1], {"D", "DEF"})
    /\ IntLiteral(tokens[2])
    /\ tokens[2].c \in DOMAIN waveforms
    /\ objs[waveforms[tokens[2].c]].points = <<>>
    /\ \E o \in 1..Len(objs) :
           /\ o # waveforms[tokens[2].c]
           /\ objs[o].id = tokens[2].c
           /\ objs[o].points # <<>>

\* ------------------------------------------------------------------- C9
\* C9: no line with a malformed numeric argument aborts the run; the run
\* never ends in the ValueError of a conversion.
C9_NoLineAbortsTheRun == ~(pc = "aborted" /\ err = "ValueError")

\* ------------------------------------------------------------------ C10
\* a step that reads a W line whose integer id is not in the table
PlayOfMissingStep ==
    /\ ReadsLine
    /\ Len(tokens') >= 2
    /\ IsWord(tokens'[1], {"W", "w"})
    /\ IntLiteral(tokens'[2])
    /\ tokens'[2].c \notin DOMAIN waveforms

\* C10: a W line whose id is not in the waveform table is rejected with the
\* does-not-exist error for that line; no driver call is made, the replay
\* log, the waveform table, the waveforms and the current-waveform pointer
\* stay as they were, and the loop goes on to the next line.
C10_PlayOfMissingIsRejected ==
    [][PlayOfMissingStep =>
        /\ msg' = <<"Error - waveform requested does not exist", ln', 0, 0>>
        /\ smu' = smu
        /\ replay' = replay
        /\ waveforms' = waveforms
        /\ objs' = objs
        /\ currentWaveform' = currentWaveform
        /\ pc' = "read"
        /\ err' = ""]_vars

\* W of an id above every defined id has been rejected after a play
C10_Witness ==
    /\ Len(tokens) >= 2
    /\ IsWord(tokens[1], {"W", "w"})
    /\ IntLiteral(tokens[2])
    /\ tokens[2].c >= 0
    /\ tokens[2].c \notin DOMAIN waveforms
    /\ msg[1] = "Error - waveform requested does not exist"
    /\ pc = "read"
    /\ smu # <<>>
    /\ replay # <<>>

\* ------------------------------------------------------------------ C11
\* a step that reads a W line naming a waveform of the table that holds no
\* sample
PlayOfEmptyStep ==
    /\ ReadsLine
    /\ Len(tokens') >= 2
    /\ IsWord(tokens'[1], {"W", "w"})
    /\ IntLiteral(tokens'[2])
    /\ tokens'[2].c \in DOMAIN waveforms
    /\ objs[waveforms[tokens'[2].c]].points = <<>>

\* C11: a W line on a waveform without samples makes no driver call, adds
\* no record to the replay log, ends only that operation and leaves the
\* loop ready for the next line.
C11_EmptyWaveformIsNotPlayed ==
    [][PlayOfEmptyStep =>
        /\ smu' = smu
        /\ replay' = replay
        /\ objs' = objs
        /\ pc' = "read"]_vars

\* ------------------------------------------------------------------ C12
AllTimesZero(wf) ==
    /\ wf.points # <<>>
    /\ \A i \in 1..Len(wf.points) : wf.points[i][1].c = 0

\* no sweep is prepared from an empty expansion
NoEmptySweepPrepared ==
    \A i \in 1..Len(smu) :
        smu[i].op = "prepareVoltageListSweep" => smu[i].vlist # <<>>

\* C12: no time step is derived for a waveform whose recorded times are
\* all 0, and no prepareVoltageListSweep with an empty expansion is ever
\* made.
C12_AllZeroTimesAreRefused ==
    /\ \A o \in 1..Len(objs) : AllTimesZero(objs[o]) => ~HasTstep(objs[o])
    /\ NoEmptySweepPrepared

\* ------------------------------------------------------------------ C13
\* C13: the replay log only grows: in every step the log before the step is
\* a prefix of the log after it.
C13_ReplayLogIsAppendOnly ==
    [][/\ Len(replay') >= Len(replay)
       /\ SubSeq(replay', 1, Len(replay)) = replay]_vars

\* the log has grown by a play and then by the extension of a replay
C13_Witness ==
    /\ pc = "read"
    /\ Len(tokens) >= 2
    /\ IsWord(tokens[1], {"R", "r"})
    /\ repeats >= 1
    /\ Len(replay) >= 2

\* ------------------------------------------------------------------ C14
\* a step in which a driver call of a W or OUT line raises
DeviceFailStep ==
    /\ err = ""
    /\ err' = "OSError"
    /\ IsWord(tokens'[1], {"W", "w", "OUT", "out"})

\* the driver calls the line makes when none of them fails
CallsOfLine(line, heap, table) ==
    IF IsWord(line[1], {"OUT", "out"})
    THEN <<enableOutput(IsWord(line[2], {"ON", "on"}))>>
    ELSE LET wf == heap[table[line[2].c]]
             it == IF Len(line) > 2 /\ IntLiteral(line[3]) /\ line[3].c >= 1
                   THEN line[3].c ELSE 1
         IN  <<prepareVoltageListSweep(wf.vlist, wf.tstep)>>
                 \o [i \in 1..it |-> initiate]

\* C14: when a driver call of a play or of an output switch fails, the
\* exception leaves the operation, every waveform, the waveform table and
\* the current-waveform pointer are as before the operation, and the calls
\* made are the calls of the operation up to the failing one, each made
\* once.
C14_DeviceFailureKeepsRegistry ==
    [][DeviceFailStep =>
        LET n     == Len(smu)
            added == SubSeq(smu', n + 1, Len(smu'))
            calls == CallsOfLine(tokens', objs, waveforms)
        IN  /\ objs' = objs
            /\ waveforms' = waveforms
            /\ currentWaveform' = currentWaveform
            /\ pc' = "aborted"
            /\ SubSeq(smu', 1, n) = smu
            /\ Len(added) \in 1..Len(calls)
            /\ added = SubSeq(calls, 1, Len(added))]_vars

\* a play of a waveform that holds samples failed at an initiate
C14_Witness ==
    /\ err = "OSError"
    /\ pc = "aborted"
    /\ IsWord(tokens[1], {"W", "w"})
    /\ Len(smu) >= 2
    /\ smu[Len(smu)] = initiate
    /\ objs[waveforms[tokens[2].c]].points # <<>>

\* ------------------------------------------------------------------ C15
\* C15 as stated: at program start the waveform table holds no waveform and
\* the replay log is empty.
C15_StartsEmpty == ln = 0 => (DOMAIN waveforms = {} /\ replay = <<>>)

\* C15 amended: Waveform objects are made at program start and by DEF
\* only, so as long as objs holds one object no DEF has been processed.
\* Until then the table holds exactly waveform 0, which is the current
\* waveform; at program start it has no samples and the replay log is empty.
C15_StartsWithWaveformZero ==
    Len(objs) <= 1 =>
        /\ Len(objs) = 1
        /\ DOMAIN waveforms = {0}
        /\ waveforms[0] = 1
        /\ objs[1].id = 0
        /\ currentWaveform = 0
        /\ ln = 0 => (objs[1].points = <<>> /\ replay = <<>> /\ smu = <<>>)

\* before any DEF, waveform 0 has received a sample and has been played
C15_Witness ==
    /\ Len(objs) = 1
    /\ objs[1].points # <<>>
    /\ replay # <<>>
    /\ smu # <<>>

\* ------------------------------------------------------------------ C17
Max(a, b) == IF a >= b THEN a ELSE b

\* C17: a W line that plays an existing waveform uses, and stores in the
\* record it appends to the replay log, the iteration count 1 when there is
\* no third token, and max(1, n) when the third token is the integer n; the
\* count is at least 1 whatever the third token is, and so is the number of
\* initiate calls.
C17_PlayCountIsAtLeastOne ==
    [][PlayStep =>
        LET k    == Len(replay')
            used == replay'[k][3]
            n    == Len(smu)
        IN  /\ k = Len(replay) + 1
            /\ used >= 1
            /\ Len(tokens') = 2 => used = 1
            /\ (Len(tokens') > 2 /\ IntLiteral(tokens'[3]))
                   => used = Max(1, tokens'[3].c)
            /\ (Len(tokens') > 2 /\ ~is_number(tokens'[3])) => used = 1
            /\ Len(smu') = n + 1 + used
            /\ \A j \in (n + 2)..(n + 1 + used) : smu'[j] = initiate]_vars

\* 0.5 1 / w 0 0 has been run: the count 0 was raised to 1
C17_Witness ==
    /\ pc = "read"
    /\ err = ""
    /\ msg = NoMsg
    /\ tokens = <<Word("w"), Num(0, 0), Num(0, 0)>>
    /\ replay # <<>>
    /\ replay[Len(replay)] = <<"W", waveforms[0], 1>>
    /\ Len(smu) >= 2
    /\ smu[Len(smu)] = initiate
    /\ smu[Len(smu) - 1].op = "prepareVoltageListSweep"

\* ------------------------------------------------------------------ C18
\* a line whose first token is R and whose count is missing, is no number,
\* or is a number below 1
UnusableReplayStep ==
    /\ ReadsLine
    /\ Len(tokens') >= 1
    /\ IsWord(tokens'[1], {"R", "r"})
    /\ IF Len(tokens') = 1 THEN TRUE
       ELSE IF tokens'[2].k = "word" THEN ~StartsWithHash(tokens'[2])
       ELSE tokens'[2].k = "num" /\ tokens'[2].c < Pow10(tokens'[2].e)

\* C18: a Replay line whose count is missing, non-numeric or less than 1 is
\* reported as an error with its line number and has no effect: no driver
\* call is made, the replay log is unchanged and the run goes on.
C18_UnusableReplayIsRejected ==
    [][UnusableReplayStep =>
        /\ msg' = Msg("Error - unusable replay count", ln')
        /\ smu' = smu
        /\ replay' = replay
        /\ pc' = "read"
        /\ err' = ""]_vars

\* ------------------------------------------------------------------ C19
\* C19: every sample stored in any waveform has a time of at least 0, and
\* the number of copies computed for it is never negative.
C19_StoredTimesAreNonNegative ==
    \A o \in 1..Len(objs) :
        \A i \in 1..Len(objs[o].points) :
            /\ TimeOf(objs[o], i)[1] >= 0
            /\ HasTstep(objs[o]) =>
                   copies(objs[o].points[i][1], objs[o].tstep) >= 0

\* ------------------------------------------------------------------ C20
\* a line that is neither blank nor a comment and has none of the valid
\* forms: a single token; a number followed by a non-number or by more than
\* one token; an unknown operation word; OUT without ON or OFF; DEF or W
\* without a numeric id; W of an id that is not in the table
Malformed(line, table) ==
    IF line = <<>> THEN FALSE
    ELSE IF StartsWithHash(line[1]) THEN FALSE
    ELSE IF Len(line) = 1 THEN TRUE
    ELSE IF StartsWithHash(line[2]) THEN FALSE
    ELSE IF is_number(line[1]) THEN ~is_number(line[2]) \/ Len(line) > 2
    ELSE IF line[1].w \notin Ops THEN TRUE
    ELSE IF line[1].w \in {"OUT", "out"}
         THEN ~IsWord(line[2], {"ON", "on", "OFF", "off"})
    ELSE IF line[1].w \in {"D", "DEF"} THEN ~is_number(line[2])
    ELSE IF line[1].w \in {"W", "w"}
         THEN IF IntLiteral(line[2]) THEN line[2].c \notin DOMAIN table
              ELSE ~is_number(line[2])
    ELSE FALSE

MalformedStep == ReadsLine /\ Malformed(tokens', waveforms)

\* C20: every malformed line is reported as an error with its 1-based line
\* number and is not executed: no waveform, replay log or driver call
\* changes, and the run goes on.
C20_MalformedLineIsReported ==
    [][MalformedStep =>
        /\ msg'[1] # ""
        /\ msg'[2] = ln'
        /\ objs' = objs
        /\ waveforms' = waveforms
        /\ currentWaveform' = currentWaveform
        /\ replay' = replay
        /\ smu' = smu
        /\ pc' = "read"]_vars

\* ------------------------------------------------------------------ C21
IsPrepare(c) == c.op = "prepareVoltageListSweep"

\* the waveform that the table holds under the id of the recorded waveform
Registered(rec) == objs[waveforms[objs[rec[2]].id]]

\* C21 as stated: a replayed record loads the expansion and quantum of the
\* waveform registered under the record's id at the time of the replay.
C21_ReplayLooksUpById ==
    [][ReplayStep =>
        LET k == Len(replay)
            n == repeats'
            rec(j) == replay[((j - 1) % k) + 1]
        IN  SelectSeq(SubSeq(smu', Len(smu) + 1, Len(smu')), IsPrepare)
                = [j \in 1..(n * k) |->
                      prepareVoltageListSweep(Registered(rec(j)).vlist,
                                              Registered(rec(j)).tstep)]]_vars

\* C21 amended: a record holds the Waveform object that was played; a
\* replayed record loads the expansion and quantum which that object has at
\* the time of the replay, whether or not the table still holds the object
\* under its id.
C21_ReplayLoadsRecordedObject ==
    [][ReplayStep =>
        LET k == Len(replay)
            n == repeats'
            rec(j) == replay[((j - 1) % k) + 1]
        IN  SelectSeq(SubSeq(smu', Len(smu) + 1, Len(smu')), IsPrepare)
                = [j \in 1..(n * k) |->
                      prepareVoltageListSweep(objs[rec(j)[2]].vlist,
                                              objs[rec(j)[2]].tstep)]]_vars

\* a replay has run of a record whose id was defined again after the play
C21_Witness ==
    /\ pc = "extend"
    /\ \E i \in 1..Len(replay) :
           /\ waveforms[objs[replay[i][2]].id] # replay[i][2]
           /\ Registered(replay[i]).vlist # objs[replay[i][2]].vlist
    /\ Len(SelectSeq(smu, IsPrepare)) >= 2

\* ------------------------------------------------------------------ C22
\* the two ways of ending early which the claim sets aside: a driver call
\* that fails, and the play of a waveform without samples
SetAside == {"OSError", "AttributeError"}

\* C22: a program of finitely many lines reaches the end of its input
\* unless the device fails or a waveform without samples is played; every
\* replay of count n over a log of k records makes exactly n * k plays and
\* leaves the log as it was while its loops run.
C22_EveryProgramCompletes ==
    /\ ([](err \notin SetAside)) => <>(pc = "done")
    /\ [][ReplayStep =>
            /\ Len(SelectSeq(SubSeq(smu', Len(smu) + 1, Len(smu')), IsPrepare))
                   = repeats' * Len(replay)
            /\ replay' = replay]_vars

\* ------------------------------------------------------------------ C23
\* a DEF line whose id is no number or is a negative integer
BadDefStep ==
    /\ ReadsLine
    /\ Len(tokens') >= 2
    /\ IsWord(tokens'[1], {"D", "DEF"})
    /\ IF tokens'[2].k = "word" THEN ~StartsWithHash(tokens'[2])
       ELSE IntLiteral(tokens'[2]) /\ tokens'[2].c < 0

\* the current waveform is in the table, and the table maps non-negative
\* ids to Waveform objects made for those ids
PointerIsInTable ==
    /\ currentWaveform \in DOMAIN waveforms
    /\ \A id \in DOMAIN waveforms :
           /\ id >= 0
           /\ waveforms[id] \in 1..Len(objs)
           /\ objs[waveforms[id]].id = id

\* C23: in every reachable state the current-waveform pointer names a
\* waveform of the table and every id of the table is a non-negative
\* integer; a DEF with a negative or non-numeric id is reported, creates no
\* waveform and does not move the pointer.
C23_CurrentWaveformExists ==
    /\ []PointerIsInTable
    /\ [][BadDefStep =>
            /\ objs' = objs
            /\ waveforms' = waveforms
            /\ currentWaveform' = currentWaveform
            /\ msg'[1] # ""
            /\ msg'[2] = ln'
            /\ pc' = "read"]_vars

\* DEF 1 / DEF -1 has been run: waveform 1 is still the current one
C23_Witness ==
    /\ tokens = <<Word("DEF"), Num(-1, 0)>>
    /\ msg = Msg("Error - waveform definition with negative ID", ln)
    /\ currentWaveform = 1
    /\ DOMAIN waveforms = {0, 1}
    /\ pc = "read"

\* ------------------------------------------------------------------ C24
RatAdd(p, q) == Norm(p[1] * q[2] + q[1] * p[2], p[2] * q[2])

\* the exact sum of the first n recorded times of wf
RECURSIVE SumTimes(_, _)
SumTimes(wf, n) ==
    IF n = 0 THEN <<0, 1>>
    ELSE RatAdd(SumTimes(wf, n - 1), TimeOf(wf, n))

====
